---- MODULE Spec2Model ----
(***************************************************************************)
(* Model of the bulk-edit compiler of lib/centralCLI/central.py:           *)
(* BuildCLI.get_bulkedit_data (CSV rows -> per-device data) followed by    *)
(* BuildCLI.build_cmds (group reconciliation and CLI command emission).    *)
(*                                                                         *)
(* Python values are modelled as follows:                                  *)
(*   str            a TLA+ string (Len, SubSeq and \o act on characters)   *)
(*   dict           a function whose DOMAIN is the set of keys             *)
(*   list           a sequence                                             *)
(*   print(...)     one more entry of the sequence out                     *)
(*   KeyError       pc = "aborted" (the exception leaves build_cmds and    *)
(*                  BuildCLI.__init__; nothing catches it)                 *)
(***************************************************************************)
EXTENDS Integers, Sequences, FiniteSets, TLC

\* Number of data rows of the input file (after the header row).
MaxRows == 3

VARIABLES
    csv_rows,        \* the parsed file: csv_rows[1] is the header row
    row,             \* index in csv_rows of the next data row to ingest
    cli_keys,        \* keys of the dict cli_data, in insertion order
    cli_full,        \* keys whose value is {"_common": _common, "vlans": _vlans}
    _common,         \* the one dict created at line 534
    _vlans,          \* the one list created at line 535
    _mac,
    _exclude_start,
    pc,              \* "ingest", "reconcile", "build", "vlans", "done" or "aborted"
    dev_idx,         \* position of build_cmds' loop "for dev in self.data" in cli_keys
    vlan_idx,        \* position of the loop "for v in vlans"
    dev_info,
    cmds,
    out,             \* console output, one entry per print call
    calls,           \* session calls made for the device being processed
    hist             \* history of the run (see HistInit)

vars == <<csv_rows, row, cli_keys, cli_full, _common, _vlans, _mac, _exclude_start,
          pc, dev_idx, vlan_idx, dev_info, cmds, out, calls, hist>>

----------------------------------------------------------------------------
(* Strings *)

\* str.startswith(p)
StartsWith(s, p) == Len(s) >= Len(p) /\ SubSeq(s, 1, Len(p)) = p

\* "sub in s"
Contains(s, sub) ==
    \E i \in 1..(Len(s) - Len(sub) + 1) : SubSeq(s, i, i + Len(sub) - 1) = sub

LowerChar(c) ==
    CASE c = "A" -> "a" [] c = "B" -> "b" [] c = "C" -> "c" [] c = "D" -> "d"
      [] c = "E" -> "e" [] c = "F" -> "f" [] c = "G" -> "g" [] c = "H" -> "h"
      [] c = "I" -> "i" [] c = "J" -> "j" [] c = "K" -> "k" [] c = "L" -> "l"
      [] c = "M" -> "m" [] c = "N" -> "n" [] c = "O" -> "o" [] c = "P" -> "p"
      [] c = "Q" -> "q" [] c = "R" -> "r" [] c = "S" -> "s" [] c = "T" -> "t"
      [] c = "U" -> "u" [] c = "V" -> "v" [] c = "W" -> "w" [] c = "X" -> "x"
      [] c = "Y" -> "y" [] c = "Z" -> "z"
      [] OTHER -> c

\* str.lower(), by halves
RECURSIVE Lower(_)
Lower(s) ==
    IF Len(s) <= 1 THEN LowerChar(s)
    ELSE LET h == Len(s) \div 2
         IN  Lower(SubSeq(s, 1, h)) \o Lower(SubSeq(s, h + 1, Len(s)))

\* str.strip(), for the blank character
RECURSIVE LStrip(_)
LStrip(s) == IF s # "" /\ SubSeq(s, 1, 1) = " " THEN LStrip(Tail(s)) ELSE s

RECURSIVE RStrip(_)
RStrip(s) ==
    IF s # "" /\ SubSeq(s, Len(s), Len(s)) = " " THEN RStrip(SubSeq(s, 1, Len(s) - 1)) ELSE s

Strip(s) == RStrip(LStrip(s))

\* str.replace(' ', '_'), by halves
RECURSIVE ReplaceBlanks(_)
ReplaceBlanks(s) ==
    IF Len(s) <= 1 THEN (IF s = " " THEN "_" ELSE s)
    ELSE LET h == Len(s) \div 2
         IN  ReplaceBlanks(SubSeq(s, 1, h)) \o ReplaceBlanks(SubSeq(s, h + 1, Len(s)))

\* line 546: k.strip().lower().replace(' ', '_')
NormKey(k) == ReplaceBlanks(Lower(Strip(k)))

\* line 546 for every column of the header
RECURSIVE NormKeys(_)
NormKeys(header) ==
    IF header = <<>> THEN <<>> ELSE <<NormKey(header[1])>> \o NormKeys(Tail(header))

\* ' '.join(list)
RECURSIVE Join(_)
Join(l) ==
    IF l = <<>> THEN ""
    ELSE IF Len(l) = 1 THEN l[1] ELSE l[1] \o " " \o Join(Tail(l))

----------------------------------------------------------------------------
(* Dicts *)

EmptyDict == <<>>

Has(d, k) == k \in DOMAIN d

\* d[k] = v
Put(d, k, v) == (k :> v) @@ d

\* bool(d.get(k)) for a key that holds a str
Truthy(d, k) == Has(d, k) /\ d[k] # ""

\* bool(d.get(k)) for a key that holds a list
TruthyList(d, k) == Has(d, k) /\ Len(d[k]) > 0

\* d[k] = [v] if k not in d else [*d[k], *[v]]
AppendTo(d, k, v) == Put(d, k, IF Has(d, k) THEN Append(d[k], v) ELSE <<v>>)

----------------------------------------------------------------------------
(* get_bulkedit_data, lines 532-581 *)

CommonKeys == {"group", "model", "hostname", "bg_peer_ip", "controller_vlan",
               "zs_site_to_site_map_name", "source_fqdn"}

VlanPrefixes == {"vlan", "dhcp", "domain", "dns", "vrrp", "access_port", "ppoe"}

IsVlanKey(k) == \E p \in VlanPrefixes : StartsWith(k, p)

\* cli_data[k] = value, as if an old key moved to the end
InsertKey_MoveToEnd(keys, k) == Append(SelectSeq(keys, LAMBDA x : x # k), k)

\* cli_data[k] = value: a new key goes to the end, an old key keeps its place
InsertKey(keys, k) == IF \E i \in 1..Len(keys) : keys[i] = k THEN keys ELSE Append(keys, k)

\* The local state of the loops of lines 543-579.
IngestState(mac, common, vlans, ex, keys, full, o) ==
    [mac |-> mac, common |-> common, vlans |-> vlans, vlan_data |-> EmptyDict,
     ex |-> ex, keys |-> keys, full |-> full, out |-> o]

\* lines 555-576 with the pending start kept after it is paired (line 572 left out)
VlanCell_KeepStart(st, k, v) ==
    IF k = "vlan_id"
    THEN [st EXCEPT !.vlans = IF DOMAIN st.vlan_data # {} THEN Append(@, st.vlan_data) ELSE @,
                    !.vlan_data = Put(EmptyDict, k, v)]
    ELSE IF StartsWith(k, "dns_server_")
    THEN [st EXCEPT !.vlan_data = AppendTo(@, "dns_servers", v)]
    ELSE IF StartsWith(k, "dhcp_default_router")
    THEN [st EXCEPT !.vlan_data = AppendTo(@, "dhcp_def_gws", v)]
    ELSE IF StartsWith(k, "dhcp_exclude_start")
    THEN [st EXCEPT !.ex = v]
    ELSE IF StartsWith(k, "dhcp_exclude_end")
    THEN IF st.ex # ""
         THEN [st EXCEPT !.vlan_data =
                             AppendTo(@, "dhcp_excludes",
                                      "ip dhcp exclude-address " \o st.ex \o " " \o v)]
         ELSE [st EXCEPT !.out = Append(@,
                  "Validation Error DHCP Exclude End with no preceding start ("
                      \o v \o ")... Ignoring")]
    ELSE [st EXCEPT !.vlan_data = Put(@, k, v)]

\* lines 555-576: one VLAN-scoped column
VlanCell(st, k, v) ==
    IF k = "vlan_id"
    THEN [st EXCEPT !.vlans = IF DOMAIN st.vlan_data # {} THEN Append(@, st.vlan_data) ELSE @,
                    !.vlan_data = Put(EmptyDict, k, v)]
    ELSE IF StartsWith(k, "dns_server_")
    THEN [st EXCEPT !.vlan_data = AppendTo(@, "dns_servers", v)]
    ELSE IF StartsWith(k, "dhcp_default_router")
    THEN [st EXCEPT !.vlan_data = AppendTo(@, "dhcp_def_gws", v)]
    ELSE IF StartsWith(k, "dhcp_exclude_start")
    THEN [st EXCEPT !.ex = v]
    ELSE IF StartsWith(k, "dhcp_exclude_end")
    THEN IF st.ex # ""
         THEN [st EXCEPT !.vlan_data =
                             AppendTo(@, "dhcp_excludes",
                                      "ip dhcp exclude-address " \o st.ex \o " " \o v),
                         !.ex = ""]
         ELSE [st EXCEPT !.out = Append(@,
                  "Validation Error DHCP Exclude End with no preceding start ("
                      \o v \o ")... Ignoring")]
    ELSE [st EXCEPT !.vlan_data = Put(@, k, v)]

\* lines 546-576 as if a mac_address cell reset the buffers _common and _vlans
IngestCell_ResetOnMac(st, rawk, v) ==
    LET k == NormKey(rawk) IN
    IF k = "mac_address"
    THEN [st EXCEPT !.mac = v, !.keys = InsertKey(@, v), !.full = @ \ {v},
                    !.common = EmptyDict, !.vlans = <<>>]
    ELSE IF k \in CommonKeys
    THEN [st EXCEPT !.common = Put(@, k, v)]
    ELSE IF IsVlanKey(k)
    THEN VlanCell(st, k, v)
    ELSE st

\* lines 546-576: one (header, value) pair
IngestCell(st, rawk, v) ==
    LET k == NormKey(rawk) IN
    IF k = "mac_address"
    THEN [st EXCEPT !.mac = v, !.keys = InsertKey(@, v), !.full = @ \ {v}]
    ELSE IF k \in CommonKeys
    THEN [st EXCEPT !.common = Put(@, k, v)]
    ELSE IF IsVlanKey(k)
    THEN VlanCell(st, k, v)
    ELSE st

Min(a, b) == IF a < b THEN a ELSE b

\* e, with x evaluated before it (a plain operator argument is evaluated only
\* when it is used, which nests the evaluations of a long fold)
Strict(x, e) == IF x = x THEN e ELSE e

\* line 545: for k, v in zip(csv_rows[0], data_row), the pairs lo..hi in order
\* (the range is split in halves: first the left half, then the right one)
RECURSIVE IngestCells(_, _, _, _, _)
IngestCells(st, header, data_row, lo, hi) ==
    IF lo > hi THEN st
    ELSE IF lo = hi THEN IngestCell(st, header[lo], data_row[lo])
    ELSE LET mid == (lo + hi) \div 2
             left == IngestCells(st, header, data_row, lo, mid)
         IN  Strict(left, IngestCells(left, header, data_row, mid + 1, hi))

\* lines 544-579: one data row
IngestRowOf(st, header, data_row) ==
    LET a == IngestCells([st EXCEPT !.vlan_data = EmptyDict], header, data_row,
                         1, Min(Len(header), Len(data_row)))
    IN  [a EXCEPT !.vlans = Append(@, a.vlan_data),
                  !.keys = InsertKey(@, a.mac),
                  !.full = @ \cup {a.mac}]

----------------------------------------------------------------------------
(* build_cmds, lines 603-669: command emission *)

\* The emitter's accumulator: the commands and the prints of one device so far,
\* and ok = FALSE once a KeyError has left build_cmds.
Acc(c, o) == [c |-> c, o |-> o, ok |-> TRUE]

Cmd(a, lines) == [a EXCEPT !.c = @ \o lines]
Say(a, msg) == [a EXCEPT !.o = Append(@, msg)]
Raise(a) == [a EXCEPT !.ok = FALSE]

\* for x in l: self.cmds.append(prefix + x)
RECURSIVE Prefixed(_, _)
Prefixed(prefix, l) ==
    IF l = <<>> THEN <<>> ELSE <<prefix \o l[1]>> \o Prefixed(prefix, Tail(l))

\* line 608 with the vlan line of a record without layer-3 address left out
EmitVlanId_OnlyL3(v, a) ==
    IF ~Has(v, "vlan_id") THEN Raise(a)
    ELSE IF Truthy(v, "vlan_ip") THEN Cmd(a, <<"vlan " \o v["vlan_id"], "!">>) ELSE a

\* line 608
EmitVlanId(v, a) ==
    IF ~Has(v, "vlan_id") THEN Raise(a)
    ELSE Cmd(a, <<"vlan " \o v["vlan_id"], "!">>)

\* lines 609-621
EmitL3(v, a) ==
    IF ~Truthy(v, "vlan_ip") THEN a
    ELSE LET a1 == IF ~Truthy(v, "vlan_subnet")
                   THEN Say(a, "Validation Error No subnet mask for VLAN "
                                   \o v["vlan_id"] \o " ")
                   ELSE a
         IN  IF ~Has(v, "vlan_subnet") THEN Raise(a1)
             ELSE Cmd(a1,
                   <<"interface vlan " \o v["vlan_id"],
                     "ip address " \o v["vlan_ip"] \o " " \o v["vlan_subnet"]>>
                   \o (IF Truthy(v, "vlan_interface_description")
                       THEN <<"description " \o v["vlan_interface_description"]>> ELSE <<>>)
                   \o (IF Truthy(v, "vlan_helper_addr")
                       THEN <<"ip helper-address " \o v["vlan_helper_addr"]>> ELSE <<>>)
                   \o (IF Truthy(v, "vlan_interface_operstate")
                       THEN <<"operstate " \o v["vlan_interface_operstate"]>> ELSE <<>>)
                   \o <<"!">>)

\* lines 623-624
EmitPPPoE(v, a) ==
    IF Truthy(v, "pppoe_username")
    THEN Say(a, "Warning PPPoE not supported by this tool yet")
    ELSE a

\* lines 627-630 with the test for "ethernet" in place of "thernet"
PortName_Ethernet(access_port) ==
    IF ~Contains(access_port, "ethernet") /\ ~StartsWith(access_port, "g")
    THEN "gigabitethernet " \o access_port
    ELSE access_port

\* lines 627-630: the interface name of an access port
PortName(access_port) ==
    IF ~Contains(access_port, "thernet") /\ ~StartsWith(access_port, "g")
    THEN "gigabitethernet " \o access_port
    ELSE access_port

\* lines 626-631
EmitAccessPort(v, a) ==
    IF ~Truthy(v, "access_port") THEN a
    ELSE Cmd(a, <<"interface " \o PortName(v["access_port"]),
                  "switchport access vlan " \o v["vlan_id"], "!">>)

\* lines 633-647
EmitDhcpPool(v, a) ==
    IF ~Truthy(v, "dhcp_pool_name") THEN a
    ELSE Cmd(a,
           <<"ip dhcp pool " \o v["dhcp_pool_name"]>>
           \o (IF TruthyList(v, "dhcp_def_gws")
               THEN Prefixed("default-router ", v["dhcp_def_gws"]) ELSE <<>>)
           \o (IF TruthyList(v, "dns_servers")
               THEN <<"dns-server " \o Join(v["dns_servers"])>> ELSE <<>>)
           \o (IF Truthy(v, "domain_name")
               THEN <<"domain-name " \o v["domain_name"]>> ELSE <<>>)
           \o (IF Truthy(v, "dhcp_network")
               THEN IF Truthy(v, "dhcp_mask")
                    THEN <<"network " \o v["dhcp_network"] \o " " \o v["dhcp_mask"]>>
                    ELSE IF Truthy(v, "dhcp_network_prefix")
                    THEN <<"network " \o v["dhcp_network"] \o " /" \o v["dhcp_network_prefix"]>>
                    ELSE <<>>
               ELSE <<>>)
           \o <<"!">>)

\* lines 649-652
EmitDhcpExcludes(v, a) ==
    IF TruthyList(v, "dhcp_excludes") THEN Cmd(a, v["dhcp_excludes"]) ELSE a

\* lines 654-661 without the test of vrrp_ip (line 655)
EmitVrrp_NoIpTest(v, a) ==
    IF ~Truthy(v, "vrrp_id") THEN a
    ELSE Cmd(a,
           <<"vrrp " \o v["vrrp_id"],
             "ip address " \o (IF Has(v, "vrrp_ip") THEN v["vrrp_ip"] ELSE ""),
             "vlan " \o v["vlan_id"]>>
           \o (IF Truthy(v, "vrrp_priority")
               THEN <<"priority " \o v["vrrp_priority"]>> ELSE <<>>)
           \o <<"no shutdown", "!">>)

\* lines 654-661
EmitVrrp(v, a) ==
    IF ~Truthy(v, "vrrp_id") THEN a
    ELSE IF Truthy(v, "vrrp_ip")
    THEN Cmd(a,
           <<"vrrp " \o v["vrrp_id"], "ip address " \o v["vrrp_ip"], "vlan " \o v["vlan_id"]>>
           \o (IF Truthy(v, "vrrp_priority")
               THEN <<"priority " \o v["vrrp_priority"]>> ELSE <<>>)
           \o <<"no shutdown", "!">>)
    ELSE Say(a, "Validation Error VRRP ID " \o v["vrrp_id"] \o " VLAN " \o v["vlan_id"]
                    \o " No VRRP IP provided... Skipped")

\* lines 663-669
EmitUnsupported(v, a) ==
    LET a1 == IF Truthy(v, "bg_peer_ip")
              THEN Say(a, "bgp peer ip Not Supported by Script yet") ELSE a
    IN  IF Truthy(v, "zs_site_to_site_map_name") \/ Truthy(v, "source_fqdn")
        THEN Say(a1, "Zscaler Configuration Not Supported by Script Yet")
        ELSE a1

\* a statement runs only while no exception is in flight
Then(a, b) == IF a.ok THEN b ELSE a

\* lines 608-669 with the access-port block (626-631) ahead of the layer-3
\* interface (609-621)
EmitVlan_PortFirst(v, a0) ==
    LET a1 == EmitVlanId(v, a0)
        a2 == Then(a1, EmitAccessPort(v, a1))
        a3 == Then(a2, EmitL3(v, a2))
        a4 == Then(a3, EmitPPPoE(v, a3))
        a5 == Then(a4, EmitDhcpPool(v, a4))
        a6 == Then(a5, EmitDhcpExcludes(v, a5))
        a7 == Then(a6, EmitVrrp(v, a6))
    IN  Then(a7, EmitUnsupported(v, a7))

\* lines 608-669: the body of "for v in vlans"
EmitVlan(v, a0) ==
    LET a1 == EmitVlanId(v, a0)
        a2 == Then(a1, EmitL3(v, a1))
        a3 == Then(a2, EmitPPPoE(v, a2))
        a4 == Then(a3, EmitAccessPort(v, a3))
        a5 == Then(a4, EmitDhcpPool(v, a4))
        a6 == Then(a5, EmitDhcpExcludes(v, a5))
        a7 == Then(a6, EmitVrrp(v, a6))
    IN  Then(a7, EmitUnsupported(v, a7))

\* lines 604-605
EmitHostname(common, a) ==
    IF Truthy(common, "hostname")
    THEN Cmd(a, <<"hostname " \o common["hostname"], "!">>)
    ELSE a

----------------------------------------------------------------------------
(* The input files *)

Col(name, values) == [n |-> name, v |-> values]

\* All rows that take one value per column, for the first len columns.
RECURSIVE RowsUpTo(_, _)
RowsUpTo(cols, len) ==
    IF len = 0 THEN {<<>>}
    ELSE {Append(r, x) : r \in RowsUpTo(cols, len - 1), x \in cols[len].v}

\* A shape: the header's columns with the values a cell may take, and the
\* lengths a row may have (a shorter row is a truncated one).
Shape(cols, lens) == [cols |-> cols, lens |-> lens]

HeaderOf(shape) == [i \in 1..Len(shape.cols) |-> shape.cols[i].n]

RowsOf(shape) == UNION {RowsUpTo(shape.cols, len) : len \in shape.lens}

RECURSIVE SeqsUpTo(_, _)
SeqsUpTo(S, n) ==
    IF n = 0 THEN {<<>>}
    ELSE LET shorter == SeqsUpTo(S, n - 1)
         IN  shorter \cup {Append(q, x) : q \in {t \in shorter : Len(t) = n - 1}, x \in S}

Fix(name, value) == Col(name, {value})

MacCol == Col("MAC Address", {"AA:01", "bb:02"})
OneMac == Fix("mac_address", "AA:01")
Group == Fix(" Group", "G1")
Vlan10 == Fix("VLAN ID", "10")
Vlan20 == Fix("vlan_id", "20")

\* Layer-3 interfaces: vlan_subnet empty, truncated away or not a column;
\* the first shape also has comment lines
ShapesL3 == {
    Shape(<<Col("MAC Address", {"AA:01", "#AA:01"}), Group, Fix("Hostname", "gw1"), Vlan10,
            Fix("vlan_ip", "10.0.0.1"), Col("vlan_subnet", {"", "255.255.255.0"})>>, {6}),
    Shape(<<MacCol, Group, Vlan10, Fix("vlan_ip", "10.0.0.1"), Vlan20>>, {5}),
    Shape(<<OneMac, Group, Fix("hostname", "gw1"), Vlan10, Fix("vlan_ip", "10.0.0.1"),
            Fix("vlan_subnet", "255.255.255.0"), Vlan20>>, {5, 7})
}

\* Access ports
ShapesPort == {
    Shape(<<OneMac, Group, Vlan10,
            Col("access_port", {"1/1/3", "gigabitethernet 1/1/5", "Ethernet1/1"})>>, {4}),
    Shape(<<OneMac, Group, Vlan10, Col("Access_Port", {"g1", "ethernet2", "GE1"})>>, {4}),
    Shape(<<OneMac, Group, Vlan10, Col("Access Port", {"", "the rnet"})>>, {4})
}

\* DHCP exclude ranges
ShapesExclude == {
    Shape(<<OneMac, Group, Vlan10, Col("DHCP Exclude Start", {"", "10.0.0.2"}),
            Fix("DHCP Exclude End", "10.0.0.9")>>, {5}),
    Shape(<<OneMac, Group, Vlan10, Col("dhcp_exclude_start", {"", "10.0.0.2"}), Vlan20,
            Fix("dhcp_exclude_end", "10.0.0.9"), Fix("dhcp_exclude_end_2", "10.0.0.19")>>, {7}),
    Shape(<<MacCol, Group, Vlan10, Fix("dhcp_exclude_end", "10.0.0.9"),
            Fix("dhcp_exclude_start", "10.0.0.2")>>, {5}),
    Shape(<<OneMac, Group, Vlan10, Fix("dhcp_exclude_start_1", "10.0.0.2"),
            Fix("dhcp_exclude_end_1", "10.0.0.9"), Fix("dhcp_exclude_start_2", "10.0.0.12"),
            Col("dhcp_exclude_end_2", {"", "10.0.0.19"})>>, {7})
}

\* VRRP
ShapesVrrp == {
    Shape(<<OneMac, Group, Vlan10, Fix("vrrp_id", "5"), Col("vrrp_ip", {"", "10.0.0.254"}),
            Col("vrrp_priority", {"", "110"})>>, {6}),
    Shape(<<OneMac, Group, Vlan10, Col("vrrp_id", {"", "5"})>>, {4})
}

\* Features the tool does not support
ShapesUnsupported == {
    Shape(<<OneMac, Group, Col("bg_peer_ip", {"", "192.0.2.1"}), Vlan10,
            Fix("pppoe_username", "user"), Fix("zs_site_to_site_map_name", "zs1"),
            Fix("source_fqdn", "gw.example")>>, {7})
}

\* Every part of a VLAN block, the columns in another order than the emitter's
ShapesFull == {
    Shape(<<Fix("Comment", "x"), MacCol, Group, Fix("model", "7005"), Fix("hostname", "gw1"),
            Fix("controller_vlan", "1"), Vlan10,
            Fix("vrrp_priority", "110"), Fix("vrrp_ip", "10.0.0.254"), Fix("vrrp_id", "5"),
            Fix("dhcp_exclude_start", "10.0.0.2"), Fix("dhcp_exclude_end", "10.0.0.9"),
            Fix("domain_name", "example"), Fix("DNS Server 1", "8.8.8.8"),
            Fix("DNS Server 2", "8.8.4.4"), Fix("dhcp_default_router", "10.0.0.1"),
            Fix("dhcp_default_router_2", "10.0.0.3"), Fix("dhcp_network", "10.0.0.0"),
            Fix("dhcp_mask", "255.255.255.0"), Fix("dhcp_pool_name", "pool"),
            Fix("access_port", "1/1/3"), Fix("vlan_interface_operstate", "up"),
            Fix("vlan_helper_addr", "10.9.9.9"), Fix("vlan_interface_description", "users"),
            Fix("vlan_subnet", "255.255.255.0"), Fix("vlan_ip", "10.0.0.1"),
            Vlan20, Fix("vlan_ip", "10.0.1.1"), Fix("vlan_subnet", "255.255.255.0")>>, {29}),
    Shape(<<OneMac, Group, Vlan10, Fix("dhcp_pool_name", "pool"),
            Fix("dhcp_network", "10.0.0.0"), Col("dhcp_mask", {"", "255.255.255.0"}),
            Fix("dhcp_network_prefix", "24")>>, {7}),
    Shape(<<OneMac, Group, Vlan10, Fix("dhcp_pool_name", "pool"),
            Col("dhcp_network", {"", "10.0.0.0"})>>, {5})
}

\* Several devices (the files of these shapes have one row less than the others)
ShapesDevices == {
    Shape(<<MacCol, Col("group", {"G1", "G2"}), Vlan10>>, {3}),
    Shape(<<MacCol, Group, Col("hostname", {"gw1", "gw2"}), Vlan10>>, {4}),
    Shape(<<MacCol, Group, Col("vlan_id", {"10", "20"})>>, {3})
}

\* Rows and headers that miss columns
ShapesMissing == {
    Shape(<<OneMac, Group, Col("hostname", {"", "gw1"})>>, {3}),
    Shape(<<OneMac, Group, Col("vlan_ip", {"", "10.0.0.1"}), Vlan10,
            Fix("vlan_subnet", "255.255.255.0")>>, {5}),
    Shape(<<MacCol, Fix("hostname", "gw1"), Vlan10>>, {3}),
    Shape(<<OneMac, Group, Fix("hostname", "gw1"), Vlan10>>, {1, 4}),
    Shape(<<Col("group", {"G1", "G2"}), Vlan10>>, {2}),
    Shape(<<OneMac, Fix("Mac Address", "bb:02"), Group, Vlan10>>, {4})
}

Shapes == ShapesL3 \cup ShapesPort \cup ShapesExclude \cup ShapesVrrp \cup ShapesUnsupported
              \cup ShapesFull \cup ShapesMissing

\* line 539: the lines that start with '#' are dropped before parsing
IsComment(line) == line # <<>> /\ StartsWith(line[1], "#")

StripComments(lines) == SelectSeq(lines, LAMBDA l : ~IsComment(l))

\* csv_rows of line 541 for the files of the shapes S with up to n data rows:
\* the header row, then the data rows
FilesOf(S, n) ==
    UNION {{StripComments(<<HeaderOf(sh)>> \o rows) : rows \in SeqsUpTo(RowsOf(sh), n)} : sh \in S}

Files == FilesOf(Shapes, MaxRows) \cup FilesOf(ShapesDevices, MaxRows - 1)

----------------------------------------------------------------------------
(* The session (the device-management service) *)

\* What get_dev_by_type("gateway") may return: entries with a serial and,
\* usually, a macaddr.
Inventories == {
    <<>>,
    <<[serial |-> "S9"], [serial |-> "S1", macaddr |-> "aa:01"],
      [serial |-> "S2", macaddr |-> "BB:02"]>>
}

\* What get_group_for_dev_by_serial may return.
Groups == {"G1", "G2"}

\* _dev.get('macaddr', '')
MacAddr(d) == IF Has(d, "macaddr") THEN d["macaddr"] ELSE ""

\* line 591 without the two lower() calls
Matching_CaseSensitive(gateways, dev) == SelectSeq(gateways, LAMBDA d : MacAddr(d) = dev)

\* line 591
Matching(gateways, dev) == SelectSeq(gateways, LAMBDA d : Lower(MacAddr(d)) = Lower(dev))

----------------------------------------------------------------------------
(* The state machine *)

None == "None"

\* The history of a run, kept beside the program's state:
\*   events   one entry per step of build_cmds: the device (index in cli_keys), the
\*            kind of step ("reconcile", "hostname" or "vlan"), the index of the VLAN
\*            record, the range from..to of cmds and the range ofrom..oto of out the
\*            step has written
\*   failed   the devices whose move_dev_to_group returned a failure
\*   rowlen   len(_vlans) after each ingested data row
\*   keys     the names of the header's columns, normalized as line 546 does
HistInit(header) == [events |-> <<>>, failed |-> {}, rowlen |-> <<>>, keys |-> NormKeys(header)]

Init ==
    /\ csv_rows \in Files
    /\ row = 2
    /\ cli_keys = <<>>
    /\ cli_full = {}
    /\ _common = EmptyDict
    /\ _vlans = <<>>
    /\ _mac = "error"
    /\ _exclude_start = ""
    /\ pc = "ingest"
    /\ dev_idx = 1
    /\ vlan_idx = 1
    /\ dev_info = None
    /\ cmds = <<>>
    /\ out = <<>>
    /\ calls = <<>>
    /\ hist = HistInit(csv_rows[1])

\* lines 543-579: one iteration of "for data_row in csv_rows[1:]"
IngestRow ==
    /\ pc = "ingest"
    /\ row <= Len(csv_rows)
    /\ LET st == IngestRowOf(IngestState(_mac, _common, _vlans, _exclude_start,
                                         cli_keys, cli_full, out),
                             csv_rows[1], csv_rows[row])
       IN  /\ _mac' = st.mac
           /\ _common' = st.common
           /\ _vlans' = st.vlans
           /\ _exclude_start' = st.ex
           /\ cli_keys' = st.keys
           /\ cli_full' = st.full
           /\ out' = st.out
           /\ hist' = [hist EXCEPT !.rowlen = Append(@, Len(st.vlans))]
    /\ row' = row + 1
    /\ UNCHANGED <<csv_rows, pc, dev_idx, vlan_idx, dev_info, cmds, calls>>

\* lines 581, 528-530: the data is returned and build_cmds starts
StartBuild ==
    /\ pc = "ingest"
    /\ row > Len(csv_rows)
    /\ pc' = IF cli_keys = <<>> THEN "done" ELSE "reconcile"
    /\ UNCHANGED <<csv_rows, row, cli_keys, cli_full, _common, _vlans, _mac, _exclude_start,
                   dev_idx, vlan_idx, dev_info, cmds, out, calls, hist>>

\* One more event: a step of kind that appended the commands c and printed o.
Log(h, kind, vlan, c, o) ==
    [h EXCEPT !.events = Append(@, [dev |-> dev_idx, kind |-> kind, vlan |-> vlan,
                                    from |-> Len(cmds) + 1, to |-> Len(cmds) + Len(c),
                                    ofrom |-> Len(out) + 1, oto |-> Len(out) + Len(o)])]

\* _pretty_name, line 587
PrettyName(common, dev) == IF Has(common, "hostname") THEN common["hostname"] ELSE dev

\* The outcome of lines 585-601 for one device, given the session's answers:
\* gateways (get_dev_by_type), cur (get_group_for_dev_by_serial) and res
\* (move_dev_to_group).  ok = FALSE: a KeyError left build_cmds.
\* dev_info is <<>> for None or [], and <<entry>> for an inventory entry.
ReconcileOf(dev, full, common, gateways, cur, res) ==
    IF dev \notin full \/ ~Has(common, "group")
    THEN [ok |-> FALSE, o |-> <<>>, calls |-> <<>>, dev_info |-> <<>>, failed |-> FALSE]
    ELSE
    LET pretty == PrettyName(common, dev)
        group == common["group"]
        o0 == <<"Verifying " \o pretty \o " is in Group " \o group \o "...">>
        c0 == <<[op |-> "get_dev_by_type", args |-> <<"gateway">>, res |-> gateways]>>
        m == Matching(gateways, dev)
    IN  IF m = <<>>
        THEN [ok |-> TRUE, o |-> o0, calls |-> c0, dev_info |-> <<>>, failed |-> FALSE]
        ELSE
        LET info == m[1]
            c1 == Append(c0, [op |-> "get_group_for_dev_by_serial",
                              args |-> <<info["serial"]>>, res |-> cur])
        IN  IF group = cur
            THEN [ok |-> TRUE, o |-> Append(o0, " Confirmed"), calls |-> c1,
                  dev_info |-> <<info>>, failed |-> FALSE]
            ELSE
            LET o1 == o0 \o <<" it is *Not*", "Moving " \o pretty \o " to Group " \o group>>
                c2 == Append(c1, [op |-> "move_dev_to_group",
                                  args |-> <<group, info["serial"]>>, res |-> res])
            IN  IF res
                THEN [ok |-> TRUE, o |-> o1, calls |-> c2, dev_info |-> <<info>>,
                      failed |-> FALSE]
                ELSE IF Has(common, "hostname")
                THEN [ok |-> TRUE,
                      o |-> Append(o1, "Error Returned Moving " \o common["hostname"]
                                           \o " to Group " \o group),
                      calls |-> c2, dev_info |-> <<info>>, failed |-> TRUE]
                ELSE [ok |-> FALSE, o |-> o1, calls |-> c2, dev_info |-> <<info>>,
                      failed |-> TRUE]

\* lines 585-601: the group reconciliation of the device at dev_idx
Reconcile ==
    /\ pc = "reconcile"
    /\ \E gateways \in Inventories, cur \in Groups, res \in BOOLEAN :
          LET r == ReconcileOf(cli_keys[dev_idx], cli_full, _common, gateways, cur, res)
          IN  /\ pc' = IF r.ok THEN "build" ELSE "aborted"
              /\ out' = out \o r.o
              /\ calls' = r.calls
              /\ dev_info' = r.dev_info
              /\ hist' = [Log(hist, "reconcile", 0, <<>>, r.o)
                             EXCEPT !.failed = IF r.failed THEN @ \cup {dev_idx} ELSE @]
    /\ vlan_idx' = 0
    /\ UNCHANGED <<csv_rows, row, cli_keys, cli_full, _common, _vlans, _mac, _exclude_start,
                   dev_idx, cmds>>

\* the loop "for dev in self.data" moves on, or ends
NextDevicePc == IF dev_idx < Len(cli_keys) THEN "reconcile" ELSE "done"

\* lines 603-605: the hostname block of the device at dev_idx
BeginEmit ==
    /\ pc = "build"
    /\ LET a == EmitHostname(_common,
                    Acc(<<>>, <<"Building cmds for " \o PrettyName(_common, cli_keys[dev_idx])>>))
       IN  /\ cmds' = cmds \o a.c
           /\ out' = out \o a.o
           /\ hist' = Log(hist, "hostname", 0, a.c, a.o)
    /\ vlan_idx' = 1
    /\ IF _vlans = <<>>
       THEN pc' = NextDevicePc /\ dev_idx' = dev_idx + 1
       ELSE pc' = "vlans" /\ dev_idx' = dev_idx
    /\ UNCHANGED <<csv_rows, row, cli_keys, cli_full, _common, _vlans, _mac, _exclude_start,
                   dev_info, calls>>

\* lines 607-669: one iteration of "for v in vlans"
EmitVlanStep ==
    /\ pc = "vlans"
    /\ LET a == EmitVlan(_vlans[vlan_idx], Acc(<<>>, <<>>))
           last == vlan_idx = Len(_vlans)
       IN  /\ cmds' = cmds \o a.c
           /\ out' = out \o a.o
           /\ hist' = Log(hist, "vlan", vlan_idx, a.c, a.o)
           /\ pc' = IF ~a.ok THEN "aborted" ELSE IF last THEN NextDevicePc ELSE "vlans"
           /\ vlan_idx' = IF a.ok /\ ~last THEN vlan_idx + 1 ELSE vlan_idx
           /\ dev_idx' = IF a.ok /\ last THEN dev_idx + 1 ELSE dev_idx
    /\ UNCHANGED <<csv_rows, row, cli_keys, cli_full, _common, _vlans, _mac, _exclude_start,
                   dev_info, calls>>

Next == IngestRow \/ StartBuild \/ Reconcile \/ BeginEmit \/ EmitVlanStep

Spec == Init /\ [][Next]_vars

----------------------------------------------------------------------------
(* Views of a run that the properties below use *)

Events == hist.events

\* the normalized names of the header's columns
Keys == hist.keys

\* the commands and the prints of one step of build_cmds
Block(e) == SubSeq(cmds, e.from, e.to)
Printed(e) == SubSeq(out, e.ofrom, e.oto)

\* event i is the step in which a KeyError left build_cmds
Aborting(i) == pc = "aborted" /\ i = Len(Events)

VlanEvents == {i \in DOMAIN Events : Events[i].kind = "vlan"}

\* the VLAN records whose iteration of "for v in vlans" has run to its end
EmittedVlans == {i \in VlanEvents : ~Aborting(i)}

\* the record that event i is about
RecordOf(i) == _vlans[Events[i].vlan]

\* the devices (indexes in cli_keys) that build_cmds has processed to the end
DevicesDone == {d \in DOMAIN cli_keys : d < dev_idx \/ pc = "done"}

\* the commands emitted for device d: its hostname block and its VLAN blocks
DeviceCmds(d) ==
    LET mine == SelectSeq(Events, LAMBDA e : e.dev = d /\ e.kind # "reconcile")
    IN  IF mine = <<>> THEN <<>> ELSE SubSeq(cmds, mine[1].from, mine[Len(mine)].to)

IsVlanLine(l) == StartsWith(l, "vlan ")

\* l without its repetitions: the first occurrence of each element, in order
RECURSIVE Distinct(_)
Distinct(l) ==
    IF l = <<>> THEN <<>>
    ELSE LET front == Distinct(SubSeq(l, 1, Len(l) - 1))
             x == l[Len(l)]
         IN  IF \E i \in DOMAIN front : front[i] = x THEN front ELSE Append(front, x)

\* the concatenation of F(l[1]), F(l[2]), ...
RECURSIVE FlatMap(_, _)
FlatMap(F(_), l) == IF l = <<>> THEN <<>> ELSE F(l[1]) \o FlatMap(F, Tail(l))

VrrpEmitted(v) == Truthy(v, "vrrp_id") /\ Truthy(v, "vrrp_ip")

----------------------------------------------------------------------------
(* C1 *)

VlanIdLine(v) == IF Has(v, "vlan_id") THEN <<"vlan " \o v["vlan_id"]>> ELSE <<>>

\* C1 as stated: the `vlan <id>` lines emitted for a device that was processed
\* to the end are one line per distinct vlan_id of the device's vlans list, in
\* first-seen order.
C1_Original ==
    \A d \in DevicesDone :
        SelectSeq(DeviceCmds(d), IsVlanLine) = Distinct(FlatMap(VlanIdLine, _vlans))

ExpectedVlanLines(v) == VlanIdLine(v) \o (IF VrrpEmitted(v) THEN VlanIdLine(v) ELSE <<>>)

\* C1, amended: the `vlan <id>` lines emitted for a device are, in list order,
\* one line for every record of the device's vlans list (a vlan_id that is
\* recorded twice is emitted twice) and one more line for every record whose
\* VRRP block is emitted (vrrp_id and vrrp_ip set); for a device processed to
\* the end their number is the length of the list plus the number of VRRP blocks.
C1_VlanLines ==
    /\ \A i \in EmittedVlans :
           SelectSeq(Block(Events[i]), IsVlanLine) = ExpectedVlanLines(RecordOf(i))
    /\ \A d \in DevicesDone :
           LET lines == SelectSeq(DeviceCmds(d), IsVlanLine)
           IN  /\ lines = FlatMap(ExpectedVlanLines, _vlans)
               /\ Len(lines) = Len(_vlans)
                      + Cardinality({j \in DOMAIN _vlans : VrrpEmitted(_vlans[j])})

\* a device processed to the end whose list repeats a vlan_id and has a VRRP block
C1_Witness ==
    /\ pc = "done"
    /\ \E j, k \in DOMAIN _vlans : j # k /\ _vlans[j]["vlan_id"] = _vlans[k]["vlan_id"]
    /\ \E j \in DOMAIN _vlans : VrrpEmitted(_vlans[j])

----------------------------------------------------------------------------
(* C2 *)

\* l[i], l[i+1], ... are the lines of part, for some i
HasRun(l, part) ==
    \E i \in 1..(Len(l) - Len(part) + 1) : SubSeq(l, i, i + Len(part) - 1) = part

Contains1(l, x) == \E i \in DOMAIN l : l[i] = x

SubnetMissing(v) == Has(v, "vlan_id") /\ Truthy(v, "vlan_ip") /\ ~Truthy(v, "vlan_subnet")

\* C2 as stated: for a VLAN record with vlan_ip set and vlan_subnet absent (no
\* such column, a row truncated before it, or an empty value) build_cmds
\* reports the validation error, emits `interface vlan <id>` and then
\* `ip address <ip> ` with an empty subnet, and does not abort.
C2_Claim ==
    \A i \in VlanEvents :
        LET v == RecordOf(i) IN
        SubnetMissing(v) =>
            /\ Contains1(Printed(Events[i]),
                         "Validation Error No subnet mask for VLAN " \o v["vlan_id"] \o " ")
            /\ HasRun(Block(Events[i]), <<"interface vlan " \o v["vlan_id"],
                                          "ip address " \o v["vlan_ip"] \o " ">>)
            /\ ~Aborting(i)

----------------------------------------------------------------------------
(* C3 *)

ReconcileEvents == {i \in DOMAIN Events : Events[i].kind = "reconcile"}

\* C3 as stated: when move_dev_to_group returns a failure for a device,
\* build_cmds reports the failure and goes on (it does not stop at that
\* point), whether or not the device has a hostname.
C3_Claim ==
    \A i \in ReconcileEvents :
        Events[i].dev \in hist.failed =>
            /\ \E j \in DOMAIN Printed(Events[i]) :
                   StartsWith(Printed(Events[i])[j], "Error Returned Moving ")
            /\ ~Aborting(i)

----------------------------------------------------------------------------
(* C4 *)

CallsOf(op) == SelectSeq(calls, LAMBDA c : c.op = op)

\* the last device that build_cmds has begun to reconcile: calls are its calls
LastReconcile == CHOOSE i \in ReconcileEvents : \A j \in ReconcileEvents : j <= i

\* C4: build_cmds fetches the gateway inventory once per device; if no entry
\* has the device's MAC (compared case-insensitively) it makes no other call
\* and goes on to emit; otherwise it asks once for the group of the matching
\* entry's serial and issues a move exactly when that group differs from the
\* desired group, one move at most, for the desired group and that serial.
C4_MoveIffGroupDiffers ==
    /\ \A i, j \in ReconcileEvents : Events[i].dev = Events[j].dev => i = j
    /\ calls # <<>> =>
          LET dev == cli_keys[Events[LastReconcile].dev]
              desired == _common["group"]
              gateways == calls[1].res
              matches == {i \in DOMAIN gateways :
                             /\ Has(gateways[i], "macaddr")
                             /\ Lower(gateways[i]["macaddr"]) = Lower(dev)}
              lookups == CallsOf("get_group_for_dev_by_serial")
              moves == CallsOf("move_dev_to_group")
          IN  /\ calls[1].op = "get_dev_by_type"
              /\ Len(CallsOf("get_dev_by_type")) = 1
              /\ Len(moves) <= 1
              /\ matches = {} =>
                     /\ Len(calls) = 1
                     /\ ~Aborting(LastReconcile)
              /\ matches # {} =>
                     LET entry == gateways[CHOOSE i \in matches : \A j \in matches : i <= j]
                     IN  /\ Len(lookups) = 1
                         /\ lookups[1].args = <<entry["serial"]>>
                         /\ Len(moves) = 1 <=> lookups[1].res # desired
                         /\ Len(moves) = 1 => moves[1].args = <<desired, entry["serial"]>>

\* a move was issued for the second device of the file, whose MAC is written
\* in another case in the inventory
C4_Witness ==
    /\ Len(CallsOf("move_dev_to_group")) = 1
    /\ \E i \in DOMAIN calls[1].res :
           /\ Has(calls[1].res[i], "macaddr")
           /\ calls[1].res[i]["macaddr"] # cli_keys[Events[LastReconcile].dev]
           /\ calls[2].args = <<calls[1].res[i]["serial"]>>
    /\ Events[LastReconcile].dev = 2

----------------------------------------------------------------------------
(* C5 *)

\* The cells of the file that open a VLAN block or carry an exclude bound, read
\* from csv_rows alone: for each one its row r, its column c, its kind ("vlan",
\* "start" or "end") and its value v.
KindOf(k) == IF k = "vlan_id" THEN "vlan"
             ELSE IF StartsWith(k, "dhcp_exclude_start") THEN "start"
             ELSE IF StartsWith(k, "dhcp_exclude_end") THEN "end"
             ELSE "other"

KindsOf(keys) == [c \in DOMAIN keys |-> KindOf(keys[c])]

Width(r) == Min(Len(csv_rows[1]), Len(csv_rows[r]))

RowCells(kinds, r) ==
    SelectSeq([c \in 1..Width(r) |-> [r |-> r, c |-> c, kind |-> kinds[c], v |-> csv_rows[r][c]]],
              LAMBDA x : x.kind # "other")

\* the cells of the rows 2..r, in file order
RECURSIVE CellsUpTo(_, _)
CellsUpTo(kinds, r) == IF r < 2 THEN <<>> ELSE CellsUpTo(kinds, r - 1) \o RowCells(kinds, r)

\* the cells of the rows ingested so far
FileCells == CellsUpTo(KindsOf(Keys), row - 1)

Indexes(X) == [i \in 1..Len(X) |-> i]

IsBound(X, i) == X[i].kind \in {"start", "end"}

\* the exclude bound read last before cell i, if any
Preceding(X, i) ==
    {j \in 1..(i - 1) : IsBound(X, j) /\ \A m \in (j + 1)..(i - 1) : ~IsBound(X, m)}

\* cell i is an end read while a start value is pending
Paired(X, i) ==
    X[i].kind = "end" /\ \E j \in Preceding(X, i) : X[j].kind = "start" /\ X[j].v # ""

Unpaired(X, i) == X[i].kind = "end" /\ ~Paired(X, i)

EntryOf(X, i) ==
    <<"ip dhcp exclude-address " \o X[CHOOSE j \in Preceding(X, i) : TRUE].v \o " " \o X[i].v>>

ReportOf(X, i) ==
    <<"Validation Error DHCP Exclude End with no preceding start (" \o X[i].v
          \o ")... Ignoring">>

\* cell i is in the VLAN block that cell b opens: the same row, no vlan_id between
InBlock(X, b, i) ==
    /\ X[b].kind = "vlan" /\ b < i /\ X[b].r = X[i].r
    /\ \A m \in (b + 1)..i : X[m].kind # "vlan"

\* the record of _vlans that holds the block cell b opens: the last record of
\* a row holds the row's last block
RecordOfBlock(X, b) ==
    _vlans[hist.rowlen[X[b].r - 1]
               - Cardinality({m \in (b + 1)..Len(X) : X[m].kind = "vlan" /\ X[m].r = X[b].r})]

Excludes(v) == IF Has(v, "dhcp_excludes") THEN v["dhcp_excludes"] ELSE <<>>

IsExcludeLine(l) == StartsWith(l, "ip dhcp exclude-address ")
IsExcludeReport(l) == StartsWith(l, "Validation Error DHCP Exclude End")

\* C5: every dhcp_exclude_end cell read while a start value is pending adds
\* exactly one entry `ip dhcp exclude-address <start> <end>` to the record of
\* the VLAN block the end cell is in, and every VLAN block that build_cmds
\* emits has exactly the record's entries as its exclude lines; an end cell
\* read while no start is pending adds no entry, is reported once, and every
\* later cell and row is still ingested.
C5_ExcludePairs ==
    LET X == FileCells IN
    /\ FlatMap(Excludes, _vlans)
           = FlatMap(LAMBDA i : EntryOf(X, i), SelectSeq(Indexes(X), LAMBDA i : Paired(X, i)))
    /\ SelectSeq(out, IsExcludeReport)
           = FlatMap(LAMBDA i : ReportOf(X, i), SelectSeq(Indexes(X), LAMBDA i : Unpaired(X, i)))
    /\ \A b \in DOMAIN X :
           X[b].kind = "vlan" =>
               /\ RecordOfBlock(X, b)["vlan_id"] = X[b].v
               /\ Excludes(RecordOfBlock(X, b))
                      = FlatMap(LAMBDA i : EntryOf(X, i),
                                SelectSeq(Indexes(X), LAMBDA i : InBlock(X, b, i) /\ Paired(X, i)))
    /\ \A i \in EmittedVlans :
           SelectSeq(Block(Events[i]), IsExcludeLine) = Excludes(RecordOf(i))
    /\ Len(hist.rowlen) = row - 2
    /\ pc # "ingest" => row = Len(csv_rows) + 1

\* a file whose first row has an end with no pending start and whose second
\* row has a start followed by an end in one VLAN block, emitted to the end
C5_Witness ==
    LET X == FileCells IN
    /\ pc = "done"
    /\ \E i, j \in DOMAIN X :
           /\ Unpaired(X, i) /\ Paired(X, j) /\ X[i].r < X[j].r
           /\ \E b \in DOMAIN X : InBlock(X, b, j) /\ \A s \in Preceding(X, j) : InBlock(X, b, s)
    /\ \E e \in EmittedVlans :
           /\ Len(Excludes(RecordOf(e))) = 1
           /\ Len(SelectSeq(Block(Events[e]), IsExcludeLine)) = 1

----------------------------------------------------------------------------
(* C6 *)

\* the last n lines of l
Suffix(l, n) == SubSeq(l, Len(l) - n + 1, Len(l))

EndsWith(l, part) == Len(part) <= Len(l) /\ Suffix(l, Len(part)) = part

Count(l, Test(_)) == Len(SelectSeq(l, Test))

IsVrrpLine(l) == StartsWith(l, "vrrp ") \/ StartsWith(l, "priority ") \/ l = "no shutdown"

\* line 608 or line 613 raises for the record v
RaisesBeforeVrrp(v) == ~Has(v, "vlan_id") \/ (Truthy(v, "vlan_ip") /\ ~Has(v, "vlan_subnet"))

SkipReport(v) == "Validation Error VRRP ID " \o v["vrrp_id"] \o " VLAN " \o v["vlan_id"]
                     \o " No VRRP IP provided... Skipped"

\* every record of every device has had its iteration of "for v in vlans"
AllVlansVisited ==
    \A d \in DOMAIN cli_keys, n \in DOMAIN _vlans :
        \E i \in EmittedVlans : Events[i].dev = d /\ Events[i].vlan = n

\* C6: for a VLAN record with vrrp_id set and vrrp_ip absent or empty
\* build_cmds emits no line of a VRRP block (the block of the VLAN has its one
\* `vlan <id>` line and no `ip address` line but the layer-3 interface's),
\* reports the validation error and goes on: the iteration does not raise, and
\* a run that ends has visited every VLAN of every device.  With vrrp_ip set
\* the block of the VLAN ends with `vrrp <id>`, `ip address <ip>`, `vlan <id>`,
\* `priority <p>` if and only if vrrp_priority is set, `no shutdown` and the
\* separator, in this order, and nothing is reported.
C6_Vrrp ==
    \A i \in VlanEvents :
        LET v == RecordOf(i)
            B == Block(Events[i])
        IN  (~RaisesBeforeVrrp(v) /\ Truthy(v, "vrrp_id")) =>
                /\ ~Aborting(i)
                /\ pc = "done" => AllVlansVisited
                /\ ~Truthy(v, "vrrp_ip") =>
                       /\ Count(B, IsVrrpLine) = 0
                       /\ Count(B, IsVlanLine) = 1
                       /\ Count(B, LAMBDA l : StartsWith(l, "ip address "))
                              = (IF Truthy(v, "vlan_ip") THEN 1 ELSE 0)
                       /\ Count(Printed(Events[i]), LAMBDA l : l = SkipReport(v)) = 1
                /\ Truthy(v, "vrrp_ip") =>
                       /\ EndsWith(B, <<"vrrp " \o v["vrrp_id"], "ip address " \o v["vrrp_ip"],
                                        "vlan " \o v["vlan_id"]>>
                                      \o (IF Truthy(v, "vrrp_priority")
                                          THEN <<"priority " \o v["vrrp_priority"]>> ELSE <<>>)
                                      \o <<"no shutdown", "!">>)
                       /\ Count(B, LAMBDA l : StartsWith(l, "vrrp ")) = 1
                       /\ Count(B, LAMBDA l : StartsWith(l, "priority "))
                              = (IF Truthy(v, "vrrp_priority") THEN 1 ELSE 0)
                       /\ Count(B, LAMBDA l : l = "no shutdown") = 1
                       /\ Count(Printed(Events[i]),
                                LAMBDA l : StartsWith(l, "Validation Error VRRP")) = 0

\* a run that ends after a skipped VRRP block, an emitted one with a priority
\* and an emitted one without
C6_Witness ==
    /\ pc = "done"
    /\ \E i, j, k \in EmittedVlans :
           /\ i < j /\ j < k
           /\ Truthy(RecordOf(i), "vrrp_id") /\ ~Truthy(RecordOf(i), "vrrp_ip")
           /\ VrrpEmitted(RecordOf(j)) /\ Truthy(RecordOf(j), "vrrp_priority")
           /\ VrrpEmitted(RecordOf(k)) /\ ~Truthy(RecordOf(k), "vrrp_priority")

----------------------------------------------------------------------------
(* C7 *)

\* the values of the MAC cells of row r, in column order
MacsOfRow(keys, r) ==
    LET cols == SelectSeq([c \in 1..Width(r) |-> c], LAMBDA c : keys[c] = "mac_address")
    IN  [n \in 1..Len(cols) |-> csv_rows[r][cols[n]]]

\* the MACs of the rows 2..r in file order; a row read before any MAC cell
\* counts for the placeholder "error"
RECURSIVE MacsUpTo(_, _)
MacsUpTo(keys, r) ==
    IF r < 2 THEN <<>>
    ELSE LET before == MacsUpTo(keys, r - 1)
             mine == MacsOfRow(keys, r)
         IN  before \o (IF before = <<>> /\ mine = <<>> THEN <<"error">> ELSE mine)

\* the devices of the rows ingested so far, each at its first appearance
FirstSeen == Distinct(MacsUpTo(Keys, row - 1))

\* the step of build_cmds that follows step e of a device with n VLAN records
\* is the next step of the same device, or the first step of the next device
Follows(e, f, n) ==
    \/ /\ f.dev = e.dev
       /\ \/ e.kind = "reconcile" /\ f.kind = "hostname"
          \/ e.kind = "hostname" /\ f.kind = "vlan" /\ f.vlan = 1
          \/ e.kind = "vlan" /\ f.kind = "vlan" /\ f.vlan = e.vlan + 1
    \/ /\ f.dev = e.dev + 1
       /\ f.kind = "reconcile"
       /\ \/ e.kind = "vlan" /\ e.vlan = n
          \/ e.kind = "hostname" /\ n = 0

\* the values of the vlan_id cells of the ingested rows, in file order
VlanIdsOfFile ==
    LET X == FileCells
    IN  FlatMap(LAMBDA i : <<X[i].v>>, SelectSeq(Indexes(X), LAMBDA i : X[i].kind = "vlan"))

VlanIdOf(v) == IF Has(v, "vlan_id") THEN <<v["vlan_id"]>> ELSE <<>>

\* C7: the devices are the MACs of the file in the order of their first
\* appearance (a MAC that recurs in a later row keeps its place) and the VLAN
\* records are in the order of the file's vlan_id cells; build_cmds takes the
\* devices in that order, one after the other, each one's reconciliation
\* first, then its hostname block, then its VLAN records from the first to the
\* last; cmds is the concatenation of the steps' commands in the order of the
\* steps, so that every command of an earlier device precedes every command
\* of a later one.
C7_Order ==
    /\ cli_keys = FirstSeen
    /\ FlatMap(VlanIdOf, _vlans) = VlanIdsOfFile
    /\ Events # <<>> => Events[1].dev = 1 /\ Events[1].kind = "reconcile"
    /\ \A i \in 1..(Len(Events) - 1) : Follows(Events[i], Events[i + 1], Len(_vlans))
    /\ \A i \in DOMAIN Events :
           /\ Events[i].dev \in DOMAIN cli_keys
           /\ Events[i].from = (IF i = 1 THEN 1 ELSE Events[i - 1].to + 1)
           /\ i = Len(Events) => Events[i].to = Len(cmds)
    /\ \A i, j \in DOMAIN Events :
           Events[i].dev < Events[j].dev => Events[i].to < Events[j].from
    /\ pc = "done" /\ cli_keys # <<>> =>
           /\ Events[Len(Events)].dev = Len(cli_keys)
           /\ AllVlansVisited

\* a run that ends, for a file whose first device recurs after the second one
C7_Witness ==
    /\ pc = "done"
    /\ Len(csv_rows) = 4
    /\ csv_rows[2][1] = csv_rows[4][1] /\ csv_rows[2][1] # csv_rows[3][1]
    /\ cli_keys = <<csv_rows[2][1], csv_rows[3][1]>>
    /\ \E i, j \in EmittedVlans : Events[i].dev = 1 /\ Events[j].dev = 2 /\ Block(Events[i]) # <<>>

----------------------------------------------------------------------------
(* C8 *)

\* The part of a VLAN block that line n of the block B opens, 0 if it opens none:
\* 1 `vlan <id>` (the first line), 2 the layer-3 interface, 3 the access-port
\* interface, 4 the dhcp pool, 5 a dhcp exclude line, 6 the vrrp block.
PartAt(B, n) ==
    IF n = 1 THEN IF StartsWith(B[n], "vlan ") THEN 1 ELSE 0
    ELSE IF StartsWith(B[n], "interface vlan ") THEN 2
    ELSE IF StartsWith(B[n], "interface ") THEN 3
    ELSE IF StartsWith(B[n], "ip dhcp pool ") THEN 4
    ELSE IF StartsWith(B[n], "ip dhcp exclude-address ") THEN 5
    ELSE IF StartsWith(B[n], "vrrp ") THEN 6
    ELSE 0

\* the lines of B that open a part
Openers(B) == SelectSeq([n \in 1..Len(B) |-> n], LAMBDA n : PartAt(B, n) # 0)

\* the words a line inside part p may begin with (the opener and the separator apart)
InnerWords(p) ==
    CASE p = 2 -> {"ip address ", "description ", "ip helper-address ", "operstate "}
      [] p = 3 -> {"switchport access vlan "}
      [] p = 4 -> {"default-router ", "dns-server ", "domain-name ", "network "}
      [] p = 6 -> {"ip address ", "vlan ", "priority ", "no shutdown"}
      [] OTHER -> {}

\* the lines first..last of B are one well-formed part p: the opener, inner
\* lines of the part, and the separator (an exclude line stands alone)
WellFormedPart(B, p, first, last) ==
    IF p = 5 THEN first = last
    ELSE /\ first < last
         /\ B[last] = "!"
         /\ \A n \in (first + 1)..(last - 1) : \E w \in InnerWords(p) : StartsWith(B[n], w)

\* how many parts p the record v calls for
PartsWanted(v, p) ==
    CASE p = 1 -> 1
      [] p = 2 -> IF Truthy(v, "vlan_ip") THEN 1 ELSE 0
      [] p = 3 -> IF Truthy(v, "access_port") THEN 1 ELSE 0
      [] p = 4 -> IF Truthy(v, "dhcp_pool_name") THEN 1 ELSE 0
      [] p = 5 -> Len(Excludes(v))
      [] p = 6 -> IF VrrpEmitted(v) THEN 1 ELSE 0

\* the block B is made of the parts v calls for, in the fixed order
InFixedOrder(B, v) ==
    LET O == Openers(B) IN
    /\ O # <<>> /\ O[1] = 1
    /\ \A k \in 1..(Len(O) - 1) :
           \/ PartAt(B, O[k]) < PartAt(B, O[k + 1])
           \/ PartAt(B, O[k]) = 5 /\ PartAt(B, O[k + 1]) = 5
    /\ \A k \in DOMAIN O :
           WellFormedPart(B, PartAt(B, O[k]), O[k],
                          IF k = Len(O) THEN Len(B) ELSE O[k + 1] - 1)
    /\ \A p \in 1..6 :
           Cardinality({k \in DOMAIN O : PartAt(B, O[k]) = p}) = PartsWanted(v, p)

\* the steps of build_cmds for device d that emit commands
EmitSteps(d) == SelectSeq(Events, LAMBDA e : e.dev = d /\ e.kind # "reconcile")

\* C8: the commands of a device that build_cmds has processed to the end are
\* the hostname block (`hostname <name>` and the separator, if hostname is
\* set, nothing otherwise) followed by one contiguous block per record of the
\* vlans list, in list order; every VLAN block that is emitted consists of the
\* parts its record calls for in the fixed order `vlan <id>`, layer-3
\* interface, access-port interface, dhcp pool, dhcp exclude lines, vrrp
\* block, each part whole before the next one begins.
C8_FixedOrder ==
    /\ \A d \in DevicesDone :
           LET S == EmitSteps(d) IN
           /\ Len(S) = Len(_vlans) + 1
           /\ S[1].kind = "hostname"
           /\ Block(S[1]) = (IF Truthy(_common, "hostname")
                             THEN <<"hostname " \o _common["hostname"], "!">> ELSE <<>>)
           /\ \A k \in DOMAIN _vlans :
                  /\ S[k + 1].kind = "vlan" /\ S[k + 1].vlan = k
                  /\ S[k + 1].from = S[k].to + 1
    /\ \A i \in EmittedVlans : InFixedOrder(Block(Events[i]), RecordOf(i))

\* a device processed to the end with a hostname block and a VLAN block that
\* has all six parts, followed by the block of a second VLAN
C8_Witness ==
    /\ 1 \in DevicesDone
    /\ Truthy(_common, "hostname")
    /\ \E i, j \in EmittedVlans :
           /\ Events[i].dev = 1 /\ Events[j].dev = 1 /\ Events[j].vlan = Events[i].vlan + 1
           /\ \A p \in 1..6 : PartsWanted(RecordOf(i), p) >= 1
           /\ Block(Events[j]) # <<>>

----------------------------------------------------------------------------
(* C9 *)

\* some part of s, from some position on, is the text sub
Includes(s, sub) == \E n \in 0..(Len(s) - Len(sub)) : SubSeq(s, n + 1, n + Len(sub)) = sub

\* the naming rule: the value is a full interface name when it includes the
\* text sub or begins with g, and is prefixed otherwise
Named(value, sub) ==
    IF Includes(value, sub) \/ (Len(value) > 0 /\ SubSeq(value, 1, 1) = "g")
    THEN value
    ELSE "gigabitethernet " \o value

\* the access-port block of every emitted VLAN block whose record sets
\* access_port is `interface <name>`, `switchport access vlan <id>` and the
\* separator, <name> being made by the naming rule for sub, and the rule
\* leaves <name> as it is
PortBlocksNamedBy(sub) ==
    \A i \in EmittedVlans :
        LET v == RecordOf(i)
            B == Block(Events[i])
        IN  Truthy(v, "access_port") =>
                LET name == Named(v["access_port"], sub) IN
                /\ HasRun(B, <<"interface " \o name,
                               "switchport access vlan " \o v["vlan_id"], "!">>)
                /\ Count(B, LAMBDA l : StartsWith(l, "interface ")
                                           /\ ~StartsWith(l, "interface vlan ")) = 1
                /\ Named(name, sub) = name

\* C9 as stated: the emitted interface name is the access_port value prefixed
\* with `gigabitethernet ` exactly when the value neither contains `ethernet`
\* nor starts with `g`, and the value unchanged otherwise.
C9_Original == PortBlocksNamedBy("ethernet")

\* C9, amended: the emitted interface name is the access_port value prefixed
\* with `gigabitethernet ` exactly when the value neither contains `thernet`
\* (so that `Ethernet1/1` is a full name as well as `ethernet2`) nor starts
\* with `g`, and the value unchanged otherwise; the rule is idempotent, and the
\* block is `interface <name>`, `switchport access vlan <id>`, separator.
C9_PortName == PortBlocksNamedBy("thernet")

\* a run that has emitted a prefixed name, a full name with `ethernet` left
\* unchanged and `Ethernet1/1` left unchanged
C9_Witness ==
    \A line \in {"interface gigabitethernet 1/1/3", "interface gigabitethernet 1/1/5",
                 "interface Ethernet1/1"} :
        \E i \in EmittedVlans : Contains1(Block(Events[i]), line)

----------------------------------------------------------------------------
(* C10 *)

\* some ingested row of the file has a value in a column whose normalized
\* name is k
FileSets(keys, k) ==
    \E r \in 2..(row - 1) : \E c \in 1..Width(r) : keys[c] = k /\ csv_rows[r][c] # ""

\* build_cmds has reported something that names the word
Reported(word) == \E n \in DOMAIN out : Includes(out[n], word) /\ Includes(out[n], "upported")

\* C10 as stated: when the file sets pppoe_username, bg_peer_ip,
\* zs_site_to_site_map_name or source_fqdn for a device, a run of build_cmds
\* that ends has reported a not-supported warning for that feature (PPPoE,
\* bgp, Zscaler), and has emitted no command for it.
C10_Claim ==
    pc = "done" =>
        LET keys == Keys IN
        /\ FileSets(keys, "pppoe_username") => Reported("PPPoE")
        /\ FileSets(keys, "bg_peer_ip") => Reported("bgp")
        /\ FileSets(keys, "zs_site_to_site_map_name") => Reported("Zscaler")
        /\ FileSets(keys, "source_fqdn") => Reported("Zscaler")
        /\ \A n \in DOMAIN cmds :
               ~\E w \in {"pppoe", "bgp", "zs1", "192.0.2.1", "gw.example"} :
                    Includes(cmds[n], w)

----------------------------------------------------------------------------
(* C11 *)

\* C11 as stated: every record of the vlans list was opened by a vlan_id cell
\* and carries a vlan_id key, whatever the shape of the rows (no vlan_id
\* column, no VLAN-scoped column at all, a VLAN-scoped column ahead of the
\* first vlan_id), so that line 608 finds a vlan_id in every record it visits.
C11_Claim ==
    /\ \A j \in DOMAIN _vlans : Has(_vlans[j], "vlan_id")
    /\ Len(_vlans) = Len(VlanIdsOfFile)
    /\ \A i \in VlanEvents : Has(RecordOf(i), "vlan_id")

----------------------------------------------------------------------------
(* C12 *)

\* the cells <<r, c>> of the ingested rows in a column named k
CellsNamed(k) ==
    {x \in (2..(row - 1)) \X {c \in DOMAIN Keys : Keys[c] = k} : x[2] <= Width(x[1])}

\* the value the file gives last for the common attribute k: <<>> if it gives none
LastGiven(k) ==
    LET cells == CellsNamed(k)
    IN  IF cells = {} THEN <<>>
        ELSE LET x == CHOOSE y \in cells :
                          \A z \in cells : z[1] < y[1] \/ (z[1] = y[1] /\ z[2] <= y[2])
             IN  <<csv_rows[x[1]][x[2]]>>

\* the VLAN blocks emitted for device d, in the order of their emission
VlanBlocks(d) ==
    LET steps == SelectSeq(Events, LAMBDA e : e.dev = d /\ e.kind = "vlan")
    IN  [n \in 1..Len(steps) |-> Block(steps[n])]

\* the MACs of the rows ingested so far
MacsIngested == {csv_rows[x[1]][x[2]] : x \in CellsNamed("mac_address")}

\* C12: the devices share one common-attribute map and one VLAN list that are
\* never reset: the map holds for each attribute the value the file gives
\* last, in whatever device's row; the list holds the VLAN records of every
\* ingested row, of whatever device, in file order and grows with every row;
\* and for every device that build_cmds processes to the end it emits one
\* block per record of this list, the same blocks for every device.
C12_SharedBuffers ==
    /\ \A k \in CommonKeys :
           (IF Has(_common, k) THEN <<_common[k]>> ELSE <<>>) = LastGiven(k)
    /\ FlatMap(VlanIdOf, _vlans) = VlanIdsOfFile
    /\ \A n \in DOMAIN hist.rowlen :
           hist.rowlen[n] > (IF n = 1 THEN 0 ELSE hist.rowlen[n - 1])
    /\ hist.rowlen # <<>> => Len(_vlans) = hist.rowlen[Len(hist.rowlen)]
    /\ \A d \in DevicesDone :
           /\ Len(VlanBlocks(d)) = Len(_vlans)
           /\ \A n \in DOMAIN _vlans : VlanBlocks(d)[n][1] = "vlan " \o _vlans[n]["vlan_id"]
           /\ VlanBlocks(d) = VlanBlocks(1)

\* a run that ends for a file with rows of two MACs that give different VLANs:
\* both devices have the blocks of both VLANs
C12_Witness ==
    /\ pc = "done"
    /\ Cardinality(MacsIngested) = 2
    /\ Len(cli_keys) = 2
    /\ \E j, k \in DOMAIN _vlans : _vlans[j]["vlan_id"] # _vlans[k]["vlan_id"]
    /\ VlanBlocks(2) = VlanBlocks(1)
    /\ Len(VlanBlocks(2)) = Len(csv_rows) - 1

----------------------------------------------------------------------------
(* C13 *)

\* the values that the rows of the device mac give for the common attribute k
OwnValues(mac, k) ==
    {csv_rows[x[1]][x[2]] :
         x \in {y \in CellsNamed(k) :
                    \E m \in CellsNamed("mac_address") :
                        m[1] = y[1] /\ csv_rows[m[1]][m[2]] = mac}}

\* the text s ends with the text t
TextEndsWith(s, t) == Len(t) <= Len(s) /\ SubSeq(s, Len(s) - Len(t) + 1, Len(s)) = t

\* C13 as stated: in a file with rows of two or more MACs, the group that
\* build_cmds verifies for a device and sends in its move request, and the
\* hostname it emits for the device, are values that the device's own rows
\* give, never those of another device's rows.
C13_Claim ==
    Cardinality(MacsIngested) >= 2 =>
        /\ \A i \in ReconcileEvents :
               LET own == OwnValues(cli_keys[Events[i].dev], "group")
                   said == Printed(Events[i])
               IN  said # <<>> =>
                       \E g \in own : TextEndsWith(said[1], " is in Group " \o g \o "...")
        /\ \A n \in DOMAIN calls :
               calls[n].op = "move_dev_to_group" =>
                   calls[n].args[1] \in OwnValues(cli_keys[Events[LastReconcile].dev], "group")
        /\ \A i \in DOMAIN Events :
               (Events[i].kind = "hostname" /\ Block(Events[i]) # <<>>) =>
                   \E h \in OwnValues(cli_keys[Events[i].dev], "hostname") :
                       Block(Events[i])[1] = "hostname " \o h

----------------------------------------------------------------------------
(* C14 *)

\* C14 as stated: a pending start is consumed only by an end of the same VLAN
\* record: every entry of a record's dhcp_excludes joins a start value and an
\* end value that are both read in the VLAN block of that record, the start
\* ahead of the end; no entry joins a start read before the block's vlan_id,
\* in an earlier row or in the row of another device.
C14_Claim ==
    LET X == FileCells IN
    \A b \in DOMAIN X :
        X[b].kind = "vlan" =>
            LET entries == Excludes(RecordOfBlock(X, b)) IN
            \A n \in DOMAIN entries :
                \E j, i \in DOMAIN X :
                    /\ j < i
                    /\ X[j].kind = "start" /\ InBlock(X, b, j)
                    /\ X[i].kind = "end" /\ InBlock(X, b, i)
                    /\ entries[n] = "ip dhcp exclude-address " \o X[j].v \o " " \o X[i].v

----------------------------------------------------------------------------
(* C15 *)

\* C15 as stated: for a device whose common attributes have no group (no
\* group column, or rows truncated before it) build_cmds does not abort in
\* the reconciliation step: it issues no move request, and a run that ends
\* has emitted the hostname block and the VLAN blocks of every device.
C15_Claim ==
    \A i \in ReconcileEvents :
        (cli_keys[Events[i].dev] \in cli_full /\ ~Has(_common, "group")) =>
            /\ ~Aborting(i)
            /\ i = LastReconcile => CallsOf("move_dev_to_group") = <<>>
            /\ pc = "done" => AllVlansVisited

====
